---- MODULE Spec2Model ----
(***************************************************************************)
(* Model of boxmot/engine/evolve.py: hyperparameter tuning of a tracker    *)
(* with Ray Tune and OptunaSearch, with restore of a previous run.         *)
(*                                                                         *)
(* Three specifications share the module:                                  *)
(*   SpecBuilder    yaml_to_search_space applied to a schema mapping       *)
(*   SpecEvaluator  Tracker.objective_function, one call, step by step     *)
(*   Spec           main(): set-up, restore-or-create, tuner.fit()         *)
(***************************************************************************)
EXTENDS Integers, Sequences, FiniteSets, TLC

VARIABLES
    \* ---- yaml_to_search_space (SpecBuilder)
    config,        \* the loaded YAML mapping: a sequence of <<param, details>>
    space,         \* what yaml_to_search_space produced for it
    \* ---- Tracker.objective_function (SpecEvaluator)
    call,          \* one call of objective_function: its arguments and progress
    \* ---- main (Spec)
    pc,            \* where the process running main() is, or how it ended
    args,          \* the arguments of the current invocation
    search_space,  \* main's local search_space (line 79)
    tuner,         \* the Tuner object of line 104 or 110
    trials,        \* the trial table of the running experiment
    store,         \* the experiment state persisted at restore_path
    \* ---- history, read only by the properties
    started,       \* per trial, how often the current invocation dispatched it
    restored,      \* per trial, the persisted status the invocation restored
    atstop         \* completed/errored counts when the controller last stopped,
                   \* until the next controller starts

bvars == <<config, space>>
evars == <<call>>
mvars == <<pc, args, search_space, tuner, trials, store>>
hvars == <<started, restored, atstop>>
vars == <<config, space, call, pc, args, search_space, tuner, trials, store,
          started, restored, atstop>>

(***************************************************************************)
(* Python values                                                           *)
(***************************************************************************)
\* Python's None, as an integer no metric and no parameter value takes.
None == -1

\* dict.get(key) of a mapping modelled as a function.
Get(d, k) == IF k \in DOMAIN d THEN d[k] ELSE None

\* The set of elements of a sequence.
Range(s) == {s[i] : i \in 1..Len(s)}

(***************************************************************************)
(* yaml_to_search_space                                                    *)
(***************************************************************************)
\* The type strings the if/elif chain tests, in the order it tests them.
RecognizedTypes ==
    {"uniform", "randint", "qrandint", "choice", "grid_search", "loguniform"}

\* The key of details each branch reads.
FieldOf(t) ==
    CASE t = "choice"      -> "options"
      [] t = "grid_search" -> "values"
      [] OTHER             -> "range"

\* A tune.<kind>(...) sampler object: its kind and the arguments it was built from.
Sampler(kind, a) == [kind |-> kind, args |-> a]

\* What a call of yaml_to_search_space produced: the dict it returned, or the
\* exception that left it (details[...] of an absent key is a KeyError).
Returned(entries) == [raised |-> "none", entries |-> entries]
Raised(exc) == [raised |-> exc, entries |-> [p \in {} |-> None]]
EmptySpace == [p \in {} |-> None]

\* A builder that validates the type: an unlisted type is an error.
BuildEntryStrict(sp, param, details) ==
    LET t == IF "type" \in DOMAIN details THEN details["type"] ELSE "None"
    IN  IF t \in RecognizedTypes /\ FieldOf(t) \in DOMAIN details
        THEN Returned([p \in DOMAIN sp.entries \cup {param} |->
                 IF p = param THEN Sampler(t, details[FieldOf(t)])
                              ELSE sp.entries[p]])
        ELSE Raised("ValueError")

\* One iteration of the for loop: space after handling (param, details).
\* details.get("type") is None when the key is absent; no branch matches None
\* or an unlisted string, and there is no else branch.
BuildEntry(sp, param, details) ==
    LET t == IF "type" \in DOMAIN details THEN details["type"] ELSE "None"
    IN  IF t \in RecognizedTypes
        THEN IF FieldOf(t) \in DOMAIN details
             THEN Returned([p \in DOMAIN sp.entries \cup {param} |->
                      IF p = param THEN Sampler(t, details[FieldOf(t)])
                                   ELSE sp.entries[p]])
             ELSE Raised("KeyError")
        ELSE sp

RECURSIVE BuildFrom(_, _, _)
BuildFrom(sp, cfg, i) ==
    IF sp.raised # "none" \/ i > Len(cfg) THEN sp
    ELSE BuildFrom(BuildEntry(sp, cfg[i][1], cfg[i][2]), cfg, i + 1)

yaml_to_search_space(cfg) == BuildFrom(Returned(EmptySpace), cfg, 1)

\* ---- the schema mappings the builder is applied to
\* Parameter names of a schema file.
ParamNames == {"det_thresh", "max_age"}

\* Descriptors of the schema file format: a recognised type with the field its
\* branch reads, an unlisted type ("grid" is the data model's name of the
\* kind, "normal" a distribution the chain does not know), or no type at all.
Descriptors ==
    {[type |-> "uniform", range |-> <<1, 3>>],
     [type |-> "loguniform", range |-> <<1, 3>>],
     [type |-> "randint", range |-> <<0, 4>>],
     [type |-> "qrandint", range |-> <<0, 4, 2>>],
     [type |-> "choice", options |-> <<5, 7>>],
     [type |-> "grid_search", values |-> <<5, 7>>],
     [type |-> "grid", values |-> <<5, 7>>],
     [type |-> "normal", range |-> <<1, 3>>],
     [range |-> <<1, 3>>],
     [default |-> 2]}

\* A YAML mapping has each key once; its items come in file order.
Schemas ==
    {<<>>}
    \cup {<<<<p, d>>>> : p \in ParamNames, d \in Descriptors}
    \cup {<<<<pq[1], d>>, <<pq[2], e>>>> :
            pq \in {x \in ParamNames \X ParamNames : x[1] # x[2]},
            d \in Descriptors, e \in Descriptors}

NotCalled == Raised("not called")

(***************************************************************************)
(* Tracker.objective_function                                              *)
(***************************************************************************)
\* Metric names of a run_trackeval payload and the values they take.
MetricNames == {"HOTA", "MOTA", "IDF1"}
MetricValues == {61, 70}

EmptyMap == [k \in {} |-> None]

\* The payloads run_trackeval may return: any metrics, any values.
Payloads == UNION {[ks -> MetricValues] : ks \in SUBSET MetricNames}

\* args.objectives: an ordered list of metric names (a name may repeat).
MaxObjectives == 2
ObjectiveSpecs == UNION {[1..n -> MetricNames] : n \in 0..MaxObjectives}

\* Configurations the optimizer hands to a trial.
Configurations == {[det_thresh |-> 1], [det_thresh |-> 2]}

\* How a collaborator behaves in one call: it raises, or returns (run_trackeval
\* returns a payload).
GenerateBehaviours == {[raises |-> FALSE], [raises |-> TRUE]}
EvaluateBehaviours ==
    {[raises |-> TRUE, payload |-> EmptyMap]}
    \cup {[raises |-> FALSE, payload |-> p] : p \in Payloads}

\* The state of one call objective_function(config) on a Tracker whose
\* opt.objectives is objectives, at its entry.
Entered(objectives, cfg) ==
    [pc |-> "generate", objectives |-> objectives, config |-> cfg,
     calls |-> <<>>, results |-> EmptyMap, ret |-> EmptyMap, exc |-> "none"]

\* An exception of collaborator fn inside objective_function: there is no
\* try/except, so it leaves the function from the line that raised it.
Propagate(c, fn) == [c EXCEPT !.pc = "raised", !.exc = fn]

\* An evaluator that tries run_generate_mot_results a second time when it raises.
GenerateStepRetry(c, gen) ==
    LET gencall == [fn |-> "generate", args |-> <<c.config>>]
        called == [c EXCEPT !.calls = Append(@, gencall)]
    IN  IF gen.raises
        THEN [called EXCEPT !.calls = Append(@, gencall), !.pc = "raised", !.exc = "generate"]
        ELSE [called EXCEPT !.pc = "evaluate"]

\* Line 66: run_generate_mot_results(self.opt, config).
GenerateStep(c, gen) ==
    LET called == [c EXCEPT !.calls = Append(@, [fn |-> "generate", args |-> <<c.config>>])]
    IN  IF gen.raises THEN Propagate(called, "generate")
        ELSE [called EXCEPT !.pc = "evaluate"]

\* Line 68: results = run_trackeval(self.opt).
EvaluateStep(c, ev) ==
    LET called == [c EXCEPT !.calls = Append(@, [fn |-> "evaluate", args |-> <<>>])]
    IN  IF ev.raises THEN Propagate(called, "evaluate")
        ELSE [called EXCEPT !.pc = "project", !.results = ev.payload]

\* A projection that keeps only the names the payload has.
ProjectionPresentOnly(res, objectives) ==
    [k \in Range(objectives) \cap DOMAIN res |-> res[k]]

\* Line 69: {k: results.get(k) for k in self.opt.objectives}; a repeated name
\* is one key of the dict.
Projection(res, objectives) == [k \in Range(objectives) |-> Get(res, k)]

ProjectStep(c) ==
    [c EXCEPT !.pc = "returned", !.ret = Projection(c.results, c.objectives)]

\* The whole call, given how the two collaborators behave in it.
objective_function(objectives, cfg, gen, ev) ==
    LET c1 == GenerateStep(Entered(objectives, cfg), gen)
        c2 == IF c1.pc = "evaluate" THEN EvaluateStep(c1, ev) ELSE c1
    IN  IF c2.pc = "project" THEN ProjectStep(c2) ELSE c2

(***************************************************************************)
(* main: the experiment that tuner.fit() runs                              *)
(***************************************************************************)
\* Largest args.n_trials, and the CPUs of the machine Ray schedules on.
MaxTrials == 3
PoolCpus == 4

\* boxmot.utils.NUM_THREADS, the CPUs each trial reserves.
NUM_THREADS == 2

\* Line 95: tune.with_resources(tune_wrapper, {"cpu": NUM_THREADS, "gpu": 0}).
TrialResources == [cpu |-> NUM_THREADS, gpu |-> 0]

\* args.objectives of an invocation: a non-empty list, the first is primary.
RunObjectives == {<<"HOTA">>}

\* What run_trackeval does inside a trial: a payload with or without HOTA.
RunEvaluateBehaviours ==
    {[raises |-> TRUE, payload |-> EmptyMap],
     [raises |-> FALSE, payload |-> [k \in {"HOTA", "MOTA"} |-> IF k = "HOTA" THEN 61 ELSE 70]],
     [raises |-> FALSE, payload |-> [k \in {"MOTA"} |-> 70]]}

\* The state of TRACKER_CONFIGS / "<tracking_method>.yaml" when main reads it:
\* absent or unreadable, a schema of sampled parameters (one of a type the
\* builder does not know), a schema with a grid_search parameter, or a schema
\* whose descriptor lacks the field of its type.
RunSchemaFiles ==
    {[found |-> FALSE, content |-> <<>>],
     [found |-> TRUE, content |->
        <<<<"det_thresh", [type |-> "uniform", range |-> <<1, 2>>]>>,
          <<"max_age", [type |-> "grid", values |-> <<5, 7>>]>>>>],
     [found |-> TRUE, content |->
        <<<<"det_thresh", [type |-> "uniform", range |-> <<1, 2>>]>>,
          <<"max_age", [type |-> "grid_search", values |-> <<5, 7>>]>>>>],
     [found |-> TRUE, content |-> <<<<"det_thresh", [type |-> "uniform"]>>>>]}

\* args of an invocation. args.n_trials is read once, at line 114, and is
\* drawn there.
Invocations == [objectives : RunObjectives]
NoArgs == [objectives |-> <<>>]

\* ---- the Tuner and its trials
NoTuner == [param_space |-> EmptySpace, num_samples |-> 0, metric |-> "", restored |-> FALSE]
NoStore == [exists |-> FALSE, param_space |-> EmptySpace, num_samples |-> 0,
            metric |-> "", trials |-> <<>>]

Terminal == {"completed", "errored"}
Ended == {"idle", "done", "stopped", "failed", "killed"}

\* The values a sampler draws (integers stand for the reals of an interval).
SampleSet(s) ==
    CASE s.kind \in {"uniform", "loguniform", "randint"} -> s.args[1] .. (s.args[2] - 1)
      [] s.kind = "qrandint" -> {v \in s.args[1] .. s.args[2] : (v - s.args[1]) % s.args[3] = 0}
      [] OTHER -> Range(s.args)

\* The configurations the search algorithm may propose over a search space.
Suggestions(sp) ==
    {f \in [DOMAIN sp -> UNION {SampleSet(sp[p]) : p \in DOMAIN sp}] :
        \A p \in DOMAIN sp : f[p] \in SampleSet(sp[p])}

\* OptunaSearch cannot convert a grid_search parameter: fit() raises.
HasGrid(sp) == \E p \in DOMAIN sp : sp[p].kind = "grid_search"

Count(ts, status) == Cardinality({i \in 1..Len(ts) : ts[i].status = status})
CpusInUse(ts) == TrialResources.cpu * Count(ts, "running")
GpusInUse(ts) == TrialResources.gpu * Count(ts, "running")

\* A scheduler that starts every pending trial at once.
HasResourcesAlways(ts) == TRUE

\* Ray starts a trial only when its resource request fits what is free.
HasResources(ts) == CpusInUse(ts) + TrialResources.cpu <= PoolCpus

\* A budget that counts only the trials proposed by the current invocation.
BudgetLeftPerInvocation(t, ts) ==
    Cardinality({i \in 1..Len(ts) : i <= Len(restored) /\ restored[i] = "new"}) < t.num_samples

\* A searcher that stops proposing once a trial has errored.
BudgetLeftUnlessErrored(t, ts) == Len(ts) < t.num_samples /\ Count(ts, "errored") = 0

\* num_samples=args.n_trials: the searcher proposes until that many trials exist.
BudgetLeft(t, ts) == Len(ts) < t.num_samples

\* A snapshot that keeps the trials' statuses and loses their results.
SnapshotStatusOnly(t, ts) ==
    [exists |-> TRUE, param_space |-> t.param_space, num_samples |-> t.num_samples,
     metric |-> t.metric,
     trials |-> [i \in 1..Len(ts) |->
                    [ts[i] EXCEPT !.status = IF @ = "running" THEN "pending" ELSE @,
                                  !.result = EmptyMap]]]

\* A snapshot that writes a running trial as running.
SnapshotRunningKept(t, ts) ==
    [exists |-> TRUE, param_space |-> t.param_space, num_samples |-> t.num_samples,
     metric |-> t.metric, trials |-> ts]

\* The experiment state Ray writes under restore_path: the tuner's settings
\* and every trial; a trial that is running is written as pending.
Snapshot(t, ts) ==
    [exists |-> TRUE, param_space |-> t.param_space, num_samples |-> t.num_samples,
     metric |-> t.metric,
     trials |-> [i \in 1..Len(ts) |->
                    IF ts[i].status = "running"
                    THEN [ts[i] EXCEPT !.status = "pending"] ELSE ts[i]]]

\* A check that takes a run without trials for no run at all.
can_restoreWithTrials(st) == st.exists /\ st.trials # <<>>

\* Line 102.
can_restore(st) == st.exists

\* A restore without resume_errored: errored trials stay errored.
ResumeStatusKeepErrored(status) ==
    IF status \in {"completed", "errored"} THEN status ELSE "pending"

\* A restore that runs every trial again.
ResumeStatusRestartAll(status) == "pending"

\* Lines 104-108: Tuner.restore(..., resume_errored=True). Finished trials are
\* kept, unfinished ones continue, errored ones are scheduled again.
ResumeStatus(status) ==
    CASE status = "completed" -> "completed"
      [] status = "errored"   -> "pending"
      [] OTHER                -> "pending"

ResumeTrial(t) ==
    IF ResumeStatus(t.status) = t.status THEN t
    ELSE [t EXCEPT !.status = ResumeStatus(t.status), !.result = EmptyMap]

\* A fit() that fails fast: the first trial error ends it.
AfterTrialErrorFailFast == "failed"

\* Where main is after a trial's evaluation raised: fit() goes on (Tuner.fit
\* does not raise on a failed trial, and no FailureConfig asks to fail fast).
AfterTrialError == "fit"

\* What can become of a trial whose result has no value for the searcher's
\* metric (None, or no such key): the source leaves it to Ray Tune and Optuna,
\* which record it, fail the trial, or raise out of fit().
NoMetricOutcomes == {"completed", "errored", "abort"}

\* What the controller held when it last stopped: the trial table and the
\* numbers of completed and errored trials in it.
NoCounts == [completed |-> 0, errored |-> 0, table |-> <<>>]
StopCounts(ts) ==
    [completed |-> Count(ts, "completed"), errored |-> Count(ts, "errored"), table |-> ts]
Finished(t, ts) == ~BudgetLeft(t, ts) /\ \A i \in 1..Len(ts) : ts[i].status \in Terminal

SetStatus(ts, i, status, result) ==
    [ts EXCEPT ![i] = [@ EXCEPT !.status = status, !.result = result]]

(***************************************************************************)
(* main: the steps of an invocation                                        *)
(***************************************************************************)
\* A process starts main(args); nothing of an earlier process is in memory.
Invoke(a) ==
    /\ pc \in Ended
    /\ pc' = "load"
    /\ args' = a
    /\ search_space' = EmptySpace
    /\ tuner' = NoTuner
    /\ trials' = <<>>
    /\ started' = <<>>
    /\ restored' = <<>>
    /\ UNCHANGED <<store, atstop, bvars, evars>>

\* Lines 78-79: load_yaml_config raises when the file cannot be opened;
\* otherwise the search space is built from what it holds.
LoadSchema(file) ==
    /\ pc = "load"
    /\ file.found
    /\ LET r == yaml_to_search_space(file.content)
       IN  IF r.raised = "none"
           THEN pc' = "eval_init" /\ search_space' = r.entries
           ELSE pc' = "failed" /\ UNCHANGED search_space
    /\ UNCHANGED <<args, tuner, trials, store, hvars, bvars, evars>>

\* A main that goes on without a search space when the schema cannot be loaded.
LoadSchemaFailsIgnored(file) ==
    /\ pc = "load"
    /\ ~file.found
    /\ pc' = "eval_init"
    /\ UNCHANGED <<args, search_space, tuner, trials, store, hvars, bvars, evars>>

LoadSchemaFails(file) ==
    /\ pc = "load"
    /\ ~file.found
    /\ pc' = "failed"
    /\ UNCHANGED <<args, search_space, tuner, trials, store, hvars, bvars, evars>>

\* A main without line 99: the decision follows eval_init at once.
EvalInitSkipsDets(ok) ==
    /\ pc = "eval_init"
    /\ pc' = IF ok THEN "decide" ELSE "failed"
    /\ UNCHANGED <<args, search_space, tuner, trials, store, hvars, bvars, evars>>

\* Line 98: eval_init(args) returns or raises.
EvalInit(ok) ==
    /\ pc = "eval_init"
    /\ pc' = IF ok THEN "gen_dets" ELSE "failed"
    /\ UNCHANGED <<args, search_space, tuner, trials, store, hvars, bvars, evars>>

\* Line 99: run_generate_dets_embs(args) returns or raises.
GenerateDets(ok) ==
    /\ pc = "gen_dets"
    /\ pc' = IF ok THEN "decide" ELSE "failed"
    /\ UNCHANGED <<args, search_space, tuner, trials, store, hvars, bvars, evars>>

\* A restore that takes the settings of the invocation that resumes.
RestoreWithNewSettings ==
    /\ pc = "decide"
    /\ can_restore(store)
    /\ pc' = "fit_start"
    /\ tuner' = [param_space |-> search_space, num_samples |-> store.num_samples,
                 metric |-> args.objectives[1], restored |-> TRUE]
    /\ trials' = [i \in 1..Len(store.trials) |-> ResumeTrial(store.trials[i])]
    /\ restored' = [i \in 1..Len(store.trials) |-> store.trials[i].status]
    /\ started' = [i \in 1..Len(store.trials) |-> 0]
    /\ UNCHANGED <<args, search_space, store, atstop, bvars, evars>>

\* Lines 102-108: a persisted run exists; its trials and settings come back.
Restore ==
    /\ pc = "decide"
    /\ can_restore(store)
    /\ pc' = "fit_start"
    /\ tuner' = [param_space |-> store.param_space, num_samples |-> store.num_samples,
                 metric |-> store.metric, restored |-> TRUE]
    /\ trials' = [i \in 1..Len(store.trials) |-> ResumeTrial(store.trials[i])]
    /\ restored' = [i \in 1..Len(store.trials) |-> store.trials[i].status]
    /\ started' = [i \in 1..Len(store.trials) |-> 0]
    /\ UNCHANGED <<args, search_space, store, atstop, bvars, evars>>

\* Lines 109-121: no persisted run; a new Tuner over the search space, with
\* num_samples=args.n_trials and the searcher's metric=args.objectives[0].
Create(n_trials) ==
    /\ pc = "decide"
    /\ ~can_restore(store)
    /\ pc' = "fit_start"
    /\ tuner' = [param_space |-> search_space, num_samples |-> n_trials,
                 metric |-> args.objectives[1], restored |-> FALSE]
    /\ trials' = <<>>
    /\ atstop' = NoCounts
    /\ UNCHANGED <<args, search_space, store, started, restored, bvars, evars>>

\* Line 124, entering fit(): the searcher takes the parameter space.
FitRejectsSpace ==
    /\ pc = "fit_start"
    /\ HasGrid(tuner.param_space)
    /\ pc' = "failed"
    /\ UNCHANGED <<args, search_space, tuner, trials, store, hvars, bvars, evars>>

\* Line 124: the controller starts and writes its first experiment snapshot.
FitStart ==
    /\ pc = "fit_start"
    /\ ~HasGrid(tuner.param_space)
    /\ pc' = "fit"
    /\ store' = Snapshot(tuner, trials)
    /\ atstop' = NoCounts
    /\ UNCHANGED <<args, search_space, tuner, trials, started, restored, bvars, evars>>

\* The searcher proposes the next configuration (one pending proposal at a time).
Propose(cfg) ==
    /\ pc = "fit"
    /\ BudgetLeft(tuner, trials)
    /\ Count(trials, "pending") = 0
    /\ trials' = Append(trials, [status |-> "pending", config |-> cfg, result |-> EmptyMap])
    /\ started' = Append(started, 0)
    /\ restored' = Append(restored, "new")
    /\ UNCHANGED <<pc, args, search_space, tuner, store, atstop, bvars, evars>>

\* A controller that runs an errored trial again in the same fit().
StartRetrying(i) ==
    /\ pc = "fit"
    /\ trials[i].status \in {"pending", "errored"}
    /\ HasResources(trials)
    /\ trials' = [trials EXCEPT ![i].status = "running"]
    /\ started' = [started EXCEPT ![i] = @ + 1]
    /\ UNCHANGED <<pc, args, search_space, tuner, store, restored, atstop, bvars, evars>>

\* A pending trial is dispatched once its CPUs are free.
Start(i) ==
    /\ pc = "fit"
    /\ trials[i].status = "pending"
    /\ HasResources(trials)
    /\ trials' = [trials EXCEPT ![i].status = "running"]
    /\ started' = [started EXCEPT ![i] = @ + 1]
    /\ UNCHANGED <<pc, args, search_space, tuner, store, restored, atstop, bvars, evars>>

\* Lines 86-87: tune_wrapper(cfg) returned a result with a value for the metric.
TrialReturns(i, gen, ev) ==
    /\ pc = "fit"
    /\ trials[i].status = "running"
    /\ LET r == objective_function(args.objectives, trials[i].config, gen, ev)
       IN  /\ r.pc = "returned"
           /\ Get(r.ret, tuner.metric) # None
           /\ trials' = SetStatus(trials, i, "completed", r.ret)
    /\ UNCHANGED <<pc, args, search_space, tuner, store, hvars, bvars, evars>>

\* Lines 86-87: tune_wrapper(cfg) raised; the trial is errored, fit() goes on.
TrialRaises(i, gen, ev) ==
    /\ pc = "fit"
    /\ trials[i].status = "running"
    /\ objective_function(args.objectives, trials[i].config, gen, ev).pc = "raised"
    /\ trials' = SetStatus(trials, i, "errored", EmptyMap)
    /\ pc' = AfterTrialError
    /\ atstop' = IF AfterTrialError = "fit" THEN atstop ELSE StopCounts(trials')
    /\ UNCHANGED <<args, search_space, tuner, store, started, restored, bvars, evars>>

\* Lines 86-87: tune_wrapper(cfg) returned a result without the metric's value.
TrialReturnsNoMetric(i, gen, ev, outcome) ==
    /\ pc = "fit"
    /\ trials[i].status = "running"
    /\ LET r == objective_function(args.objectives, trials[i].config, gen, ev)
       IN  /\ r.pc = "returned"
           /\ Get(r.ret, tuner.metric) = None
           /\ CASE outcome = "completed" ->
                     /\ trials' = SetStatus(trials, i, "completed", r.ret)
                     /\ UNCHANGED <<pc, atstop>>
                [] outcome = "errored" ->
                     /\ trials' = SetStatus(trials, i, "errored", EmptyMap)
                     /\ UNCHANGED <<pc, atstop>>
                [] OTHER ->
                     /\ pc' = "failed"
                     /\ atstop' = StopCounts(trials)
                     /\ UNCHANGED trials
    /\ UNCHANGED <<args, search_space, tuner, store, started, restored, bvars, evars>>

\* The periodic experiment snapshot: Ray writes it at intervals, not with
\* every change of a trial.
Checkpoint ==
    /\ pc = "fit"
    /\ store # Snapshot(tuner, trials)
    /\ store' = Snapshot(tuner, trials)
    /\ UNCHANGED <<pc, args, search_space, tuner, trials, hvars, bvars, evars>>

\* Lines 124-125: every trial of the budget is finished; fit() writes the
\* final snapshot and returns, and main prints the results.
FitReturns ==
    /\ pc = "fit"
    /\ Finished(tuner, trials)
    /\ pc' = "done"
    /\ store' = Snapshot(tuner, trials)
    /\ atstop' = StopCounts(trials)
    /\ UNCHANGED <<args, search_space, tuner, trials, started, restored, bvars, evars>>

\* SIGINT during fit(): Ray stops the trials, writes a snapshot and returns;
\* main prints the results and the process ends.
Interrupt ==
    /\ pc = "fit"
    /\ ~Finished(tuner, trials)
    /\ pc' = "stopped"
    /\ store' = Snapshot(tuner, trials)
    /\ atstop' = StopCounts(trials)
    /\ args' = NoArgs
    /\ search_space' = EmptySpace
    /\ tuner' = NoTuner
    /\ trials' = <<>>
    /\ started' = <<>>
    /\ restored' = <<>>
    /\ UNCHANGED <<bvars, evars>>

\* The process is killed (or the machine fails): what is in memory is gone,
\* what was persisted stays.
Kill ==
    /\ pc \notin Ended
    /\ pc' = "killed"
    /\ args' = NoArgs
    /\ search_space' = EmptySpace
    /\ tuner' = NoTuner
    /\ trials' = <<>>
    /\ started' = <<>>
    /\ restored' = <<>>
    /\ atstop' = IF pc = "fit" THEN StopCounts(trials) ELSE atstop
    /\ UNCHANGED <<store, bvars, evars>>

(***************************************************************************)
(* The specifications                                                      *)
(***************************************************************************)
\* The variables of main before any invocation.
MainIdle ==
    /\ pc = "idle"
    /\ args = NoArgs
    /\ search_space = EmptySpace
    /\ tuner = NoTuner
    /\ trials = <<>>
    /\ store = NoStore
    /\ started = <<>>
    /\ restored = <<>>
    /\ atstop = NoCounts

Init ==
    /\ config = <<>>
    /\ space = NotCalled
    /\ call = Entered(<<>>, EmptyMap)
    /\ MainIdle

Next ==
    \/ \E a \in Invocations : Invoke(a)
    \/ \E f \in RunSchemaFiles : LoadSchema(f)
    \/ \E f \in RunSchemaFiles : LoadSchemaFails(f)
    \/ \E ok \in BOOLEAN : EvalInit(ok)
    \/ \E ok \in BOOLEAN : GenerateDets(ok)
    \/ Restore
    \/ \E n \in 1..MaxTrials : Create(n)
    \/ FitRejectsSpace
    \/ FitStart
    \/ \E cfg \in Suggestions(tuner.param_space) : Propose(cfg)
    \/ \E i \in 1..Len(trials) : Start(i)
    \/ \E i \in 1..Len(trials), gen \in GenerateBehaviours, ev \in RunEvaluateBehaviours :
          TrialReturns(i, gen, ev)
    \/ \E i \in 1..Len(trials), gen \in GenerateBehaviours, ev \in RunEvaluateBehaviours :
          TrialRaises(i, gen, ev)
    \/ \E i \in 1..Len(trials), gen \in GenerateBehaviours, ev \in RunEvaluateBehaviours,
          o \in NoMetricOutcomes : TrialReturnsNoMetric(i, gen, ev, o)
    \/ Checkpoint
    \/ FitReturns
    \/ Interrupt
    \/ Kill

Spec == Init /\ [][Next]_vars

\* Line 124: fit() does not idle. The controller proposes, dispatches and
\* returns when it can, and a trial function that was called returns or raises.
Progress ==
    /\ WF_vars(FitStart)
    /\ WF_vars(FitRejectsSpace)
    /\ WF_vars(\E cfg \in Suggestions(tuner.param_space) : Propose(cfg))
    /\ WF_vars(\E i \in 1..Len(trials) : Start(i))
    /\ WF_vars(\E i \in 1..Len(trials), gen \in GenerateBehaviours, ev \in RunEvaluateBehaviours :
                  \/ TrialReturns(i, gen, ev)
                  \/ TrialRaises(i, gen, ev)
                  \/ \E o \in NoMetricOutcomes : TrialReturnsNoMetric(i, gen, ev, o))
    /\ WF_vars(FitReturns)

\* The invocations of the fair runs: args.n_trials up to MaxLiveTrials.
MaxLiveTrials == 2

NextLive ==
    \/ \E a \in Invocations : Invoke(a)
    \/ \E f \in RunSchemaFiles : LoadSchema(f)
    \/ \E f \in RunSchemaFiles : LoadSchemaFails(f)
    \/ \E ok \in BOOLEAN : EvalInit(ok)
    \/ \E ok \in BOOLEAN : GenerateDets(ok)
    \/ Restore
    \/ \E n \in 1..MaxLiveTrials : Create(n)
    \/ FitRejectsSpace
    \/ FitStart
    \/ \E cfg \in Suggestions(tuner.param_space) : Propose(cfg)
    \/ \E i \in 1..Len(trials) : Start(i)
    \/ \E i \in 1..Len(trials), gen \in GenerateBehaviours, ev \in RunEvaluateBehaviours :
          TrialReturns(i, gen, ev)
    \/ \E i \in 1..Len(trials), gen \in GenerateBehaviours, ev \in RunEvaluateBehaviours :
          TrialRaises(i, gen, ev)
    \/ \E i \in 1..Len(trials), gen \in GenerateBehaviours, ev \in RunEvaluateBehaviours,
          o \in NoMetricOutcomes : TrialReturnsNoMetric(i, gen, ev, o)
    \/ Checkpoint
    \/ FitReturns
    \/ Interrupt
    \/ Kill

SpecLive == Init /\ [][NextLive]_vars /\ Progress

\* ---- invocations that differ in their arguments: args.objectives is one of
\* two lists, and args.n_trials is part of args, read at line 114.
MaxResumeTrials == 2
ResumeObjectives == {<<"HOTA">>, <<"MOTA">>}
ResumeInvocations == [objectives : ResumeObjectives, n_trials : 1..MaxResumeTrials]

NextResume ==
    \/ \E a \in ResumeInvocations : Invoke(a)
    \/ \E f \in RunSchemaFiles : LoadSchema(f)
    \/ \E f \in RunSchemaFiles : LoadSchemaFails(f)
    \/ \E ok \in BOOLEAN : EvalInit(ok)
    \/ \E ok \in BOOLEAN : GenerateDets(ok)
    \/ Restore
    \/ Create(args.n_trials)
    \/ FitRejectsSpace
    \/ FitStart
    \/ \E cfg \in Suggestions(tuner.param_space) : Propose(cfg)
    \/ \E i \in 1..Len(trials) : Start(i)
    \/ \E i \in 1..Len(trials), gen \in GenerateBehaviours, ev \in RunEvaluateBehaviours :
          TrialReturns(i, gen, ev)
    \/ \E i \in 1..Len(trials), gen \in GenerateBehaviours, ev \in RunEvaluateBehaviours :
          TrialRaises(i, gen, ev)
    \/ \E i \in 1..Len(trials), gen \in GenerateBehaviours, ev \in RunEvaluateBehaviours,
          o \in NoMetricOutcomes : TrialReturnsNoMetric(i, gen, ev, o)
    \/ Checkpoint
    \/ FitReturns
    \/ Interrupt
    \/ Kill

SpecResume == Init /\ [][NextResume]_vars

\* ---- yaml_to_search_space on every schema mapping
BuilderInit ==
    /\ config \in Schemas
    /\ space = NotCalled
    /\ call = Entered(<<>>, EmptyMap)
    /\ MainIdle

\* Line 79: search_space = yaml_to_search_space(yaml_cfg).
BuilderCall ==
    /\ space = NotCalled
    /\ space' = yaml_to_search_space(config)
    /\ UNCHANGED <<config, evars, mvars, hvars>>

BuilderNext == BuilderCall

SpecBuilder == BuilderInit /\ [][BuilderNext]_vars

\* ---- one call of objective_function, line by line
EvaluatorInit ==
    /\ config = <<>>
    /\ space = NotCalled
    /\ call \in {Entered(o, c) : o \in ObjectiveSpecs, c \in Configurations}
    /\ MainIdle

EvaluatorGenerate(gen) ==
    /\ call.pc = "generate"
    /\ call' = GenerateStep(call, gen)
    /\ UNCHANGED <<bvars, mvars, hvars>>

EvaluatorEvaluate(ev) ==
    /\ call.pc = "evaluate"
    /\ call' = EvaluateStep(call, ev)
    /\ UNCHANGED <<bvars, mvars, hvars>>

EvaluatorProject ==
    /\ call.pc = "project"
    /\ call' = ProjectStep(call)
    /\ UNCHANGED <<bvars, mvars, hvars>>

EvaluatorNext ==
    \/ \E gen \in GenerateBehaviours : EvaluatorGenerate(gen)
    \/ \E ev \in EvaluateBehaviours : EvaluatorEvaluate(ev)
    \/ EvaluatorProject

SpecEvaluator == EvaluatorInit /\ [][EvaluatorNext]_vars

(***************************************************************************)
(* Properties                                                              *)
(***************************************************************************)
RECURSIVE SumSeq(_)
SumSeq(q) == IF q = <<>> THEN 0 ELSE Head(q) + SumSeq(Tail(q))

\* Dispatches made by the current invocation.
Dispatches == SumSeq(started)

\* Trials the current invocation restored with the given persisted status.
RestoredAs(status) == Cardinality({i \in 1..Len(restored) : restored[i] = status})

\* Trials a controller with table ts has yet to dispatch before fit() returns:
\* the unfinished ones of the table and the ones still to be proposed.
ToDispatch(t, ts) ==
    Cardinality({i \in 1..Len(ts) : ts[i].status # "completed"}) + (t.num_samples - Len(ts))

ResumeSkipsCompletedRetriesErrored ==
    tuner.restored =>
        \A i \in 1..Len(restored) :
            /\ restored[i] = "completed" =>
                  started[i] = 0 /\ trials[i].status = "completed"
            /\ restored[i] = "errored" =>
                  /\ pc = "fit_start" => trials[i].status = "pending"
                  /\ started[i] = 0 => trials[i].status = "pending"
                  /\ pc = "done" => started[i] = 1

ResumedWithCompletedAndErrored ==
    /\ pc = "done"
    /\ tuner.restored
    /\ RestoredAs("errored") >= 1
    /\ RestoredAs("completed") >= 1

ResourcePoolNeverExceeded ==
    /\ CpusInUse(trials) <= PoolCpus
    /\ GpusInUse(trials) = 0
    /\ TrialResources.gpu = 0

PoolFullTrialWaiting ==
    /\ Count(trials, "running") >= 2
    /\ Count(trials, "pending") >= 1
    /\ ~HasResources(trials)

\* C5: objective_function returns a mapping whose keys are exactly the
\* requested metric names, each with the payload's value or None when the
\* payload has no such name, and an exception never comes from the projection.
ProjectionExact ==
    /\ call.pc = "returned" =>
          /\ DOMAIN call.ret = Range(call.objectives)
          /\ \A k \in DOMAIN call.ret :
                call.ret[k] = IF k \in DOMAIN call.results THEN call.results[k] ELSE None
    /\ call.pc = "raised" => call.exc \in {"generate", "evaluate"}

ProjectedMissingAndPresent ==
    /\ call.pc = "returned"
    /\ \E k \in Range(call.objectives) : k \notin DOMAIN call.results /\ call.ret[k] = None
    /\ \E k \in Range(call.objectives) : k \in DOMAIN call.results /\ call.ret[k] # None
    /\ \E k \in DOMAIN call.results : k \notin DOMAIN call.ret

\* C6: a trial whose evaluation raises becomes errored while fit() goes on
\* and every other trial is left as it is; fit() returns only when every
\* trial of the budget is completed or errored.
TrialErrorIsolatedStep ==
    \A i \in 1..Len(trials) :
        (trials[i].status = "running" /\ i <= Len(trials') /\ trials'[i].status = "errored") =>
            /\ pc' = "fit"
            /\ Len(trials') = Len(trials)
            /\ \A j \in 1..Len(trials) : j # i => trials'[j] = trials[j]

FitReturnsWhenAllTerminal ==
    pc = "done" =>
        /\ Len(trials) = tuner.num_samples
        /\ \A i \in 1..Len(trials) : trials[i].status \in Terminal

TrialErrorIsolated == []FitReturnsWhenAllTerminal /\ [][TrialErrorIsolatedStep]_vars

CompletedAfterErrored ==
    /\ pc = "done"
    /\ \E i, j \in 1..Len(trials) :
          /\ i < j
          /\ trials[i].status = "errored" /\ started[i] = 1
          /\ trials[j].status = "completed" /\ started[j] = 1

\* C8: the search space has an entry for a parameter exactly when its
\* descriptor's type is one of the six sampler kinds, built from the
\* descriptor's range, options or values; other descriptors add nothing and
\* raise nothing.
SamplerKinds == {"uniform", "loguniform", "randint", "qrandint", "choice", "grid_search"}

DeclaredArgs(d) ==
    IF d.type = "choice" THEN d.options
    ELSE IF d.type = "grid_search" THEN d.values ELSE d.range

SearchSpaceEntries ==
    space # NotCalled =>
        /\ space.raised = "none"
        /\ DOMAIN space.entries \subseteq {config[i][1] : i \in 1..Len(config)}
        /\ \A i \in 1..Len(config) :
              LET p == config[i][1]
                  d == config[i][2]
                  known == "type" \in DOMAIN d /\ d.type \in SamplerKinds
              IN  /\ p \in DOMAIN space.entries <=> known
                  /\ known => space.entries[p] = [kind |-> d.type, args |-> DeclaredArgs(d)]

OneKeptOneDropped ==
    /\ space # NotCalled
    /\ space.raised = "none"
    /\ Len(config) = 2
    /\ Cardinality(DOMAIN space.entries) = 1

\* C9: in one call, generate-results is invoked first with the trial's
\* configuration, then run-evaluation, then the projection, none more than
\* once; when generate-results raises, run-evaluation is not invoked; an
\* exception of either leaves objective_function without a return value.
EvaluatorCallOrder ==
    LET gen == [fn |-> "generate", args |-> <<call.config>>]
        ev  == [fn |-> "evaluate", args |-> <<>>]
    IN  /\ call.calls \in {<<>>, <<gen>>, <<gen, ev>>}
        /\ call.pc = "generate" <=> call.calls = <<>>
        /\ call.pc = "evaluate" => call.calls = <<gen>>
        /\ call.pc \in {"project", "returned"} => call.calls = <<gen, ev>>
        /\ call.exc = "generate" => call.calls = <<gen>>
        /\ call.exc = "evaluate" => call.calls = <<gen, ev>>
        /\ call.exc # "none" <=> call.pc = "raised"
        /\ call.pc = "raised" => call.ret = EmptyMap

GenerateRaisedEvaluationSkipped ==
    /\ call.pc = "raised"
    /\ call.exc = "generate"
    /\ Len(call.calls) = 1

\* C11: main takes the restore path exactly when a persisted run exists at
\* restore_path, whatever its arguments; the restored controller has every
\* persisted trial and the persisted settings, and a fresh one has no trial.
ResumeIffPersistedStep ==
    (pc = "decide" /\ pc' = "fit_start") =>
        /\ tuner'.restored <=> store.exists
        /\ store.exists =>
              /\ Len(trials') = Len(store.trials)
              /\ \A i \in 1..Len(store.trials) : trials'[i].config = store.trials[i].config
              /\ tuner'.param_space = store.param_space
              /\ tuner'.num_samples = store.num_samples
              /\ tuner'.metric = store.metric
        /\ ~store.exists => trials' = <<>>
        /\ store' = store

ResumeIffPersisted == [][ResumeIffPersistedStep]_vars

RestoredPersistedTrials ==
    /\ pc = "fit_start"
    /\ tuner.restored
    /\ store.exists
    /\ Len(trials) >= 1
    /\ Len(trials) = Len(store.trials)

\* The status changes of a trial inside a controller.
StatusMoves ==
    {<<"pending", "pending">>, <<"pending", "running">>, <<"running", "running">>,
     <<"running", "completed">>, <<"running", "errored">>,
     <<"completed", "completed">>, <<"errored", "errored">>}

\* C12 (as amended): inside an invocation a trial's status only moves pending
\* -> running -> completed or errored and a completed or errored trial is
\* never touched again; a restore keeps every trial persisted as completed
\* with its result and makes every trial persisted as errored pending; a trial
\* persisted as completed stays so, with its result, in the persisted state.
TrialStatusStep ==
    /\ \A i \in 1..Len(trials) :
          i <= Len(trials') =>
              /\ <<trials[i].status, trials'[i].status>> \in StatusMoves
              /\ trials'[i].config = trials[i].config
              /\ trials[i].status \in Terminal => trials'[i] = trials[i]
    /\ (pc = "decide" /\ pc' = "fit_start" /\ tuner'.restored) =>
          \A i \in 1..Len(store.trials) :
              /\ store.trials[i].status = "completed" => trials'[i] = store.trials[i]
              /\ store.trials[i].status # "completed" => trials'[i].status = "pending"
    /\ \A i \in 1..Len(store.trials) :
          store.trials[i].status = "completed" =>
              i <= Len(store'.trials) /\ store'.trials[i] = store.trials[i]

CompletedNeverChangesStep ==
    (pc = "decide" /\ pc' = "fit_start" /\ tuner'.restored) =>
        \A i \in 1..Len(atstop.table) :
            (atstop.table[i].status = "completed" /\ i <= Len(trials')) =>
                trials'[i] = atstop.table[i]

CompletedBeforeCrashRestoredStep ==
    (pc = "decide" /\ pc' = "fit_start") =>
        \A i \in 1..Len(atstop.table) :
            atstop.table[i].status = "completed" =>
                /\ tuner'.restored
                /\ i <= Len(trials')
                /\ trials'[i].status = "completed"
                /\ trials'[i].result = atstop.table[i].result

StoppedLeavesRecoverable ==
    /\ \A i \in 1..Len(store.trials) : store.trials[i].status \in {"pending"} \cup Terminal
    /\ pc = "stopped" =>
          /\ Len(store.trials) = Len(atstop.table)
          /\ \A i \in 1..Len(atstop.table) :
                atstop.table[i].status = "running" =>
                    /\ store.trials[i].status = "pending"
                    /\ store.trials[i].config = atstop.table[i].config
    /\ pc \in {"stopped", "killed"} => Count(trials, "running") = 0 /\ CpusInUse(trials) = 0
    /\ (tuner.restored /\ pc = "fit_start") =>
          /\ Count(trials, "running") = 0
          /\ \A i \in 1..Len(restored) : restored[i] = "pending" => trials[i].status = "pending"
    /\ (tuner.restored /\ pc = "done") =>
          \A i \in 1..Len(restored) : restored[i] = "pending" => started[i] = 1

StoppedWithTrialInFlight ==
    /\ pc = "stopped"
    /\ \E i \in 1..Len(atstop.table) :
          /\ atstop.table[i].status = "running"
          /\ store.trials[i].status = "pending"
    /\ \E i \in 1..Len(atstop.table) : atstop.table[i].status = "completed"

\* The grid_search parameters of a space and the outer product of their values.
GridParams(sp) == {p \in DOMAIN sp : sp[p].kind = "grid_search"}

GridCombos(sp) ==
    {f \in [GridParams(sp) -> UNION {Range(sp[p].args) : p \in GridParams(sp)}] :
        \A p \in GridParams(sp) : f[p] \in Range(sp[p].args)}

\* C15 (as claimed): an invocation over a space with grid_search parameters
\* does not end before every combination of their values has been dispatched
\* in num_samples trials each.
GridSweptExhaustively ==
    (pc \in {"done", "failed"} /\ HasGrid(tuner.param_space)) =>
        /\ Len(trials) = tuner.num_samples * Cardinality(GridCombos(tuner.param_space))
        /\ \A f \in GridCombos(tuner.param_space) :
              \E i \in 1..Len(trials) :
                  /\ started[i] >= 1
                  /\ \A p \in DOMAIN f : trials[i].config[p] = f[p]

\* The search spaces of the schema files that load and build.
LoadableSpaces ==
    {yaml_to_search_space(f.content).entries :
        f \in {g \in RunSchemaFiles : g.found /\ yaml_to_search_space(g.content).raised = "none"}}

\* C16: main gets past lines 78-79 only with the search space of a schema
\* that loads; a failure there ends the invocation with no Tuner, no trial,
\* nothing dispatched and the persisted state as it was, whether or not a
\* persisted run exists, and nothing follows it but a new invocation.
StartupErrorAbortsStep ==
    /\ (pc = "load" /\ pc' = "eval_init") => search_space' \in LoadableSpaces
    /\ (pc = "load" /\ pc' = "failed") =>
          /\ store' = store
          /\ tuner' = NoTuner
          /\ trials' = <<>>
          /\ started' = <<>>
          /\ search_space' = EmptySpace
    /\ (pc = "failed" /\ pc' # "failed") => pc' = "load"
    /\ pc = "failed" => store' = store

StartupErrorAborts == [][StartupErrorAbortsStep]_vars

SchemaErrorWithPersistedRun ==
    /\ pc = "failed"
    /\ search_space = EmptySpace
    /\ tuner = NoTuner
    /\ store.exists
    /\ Len(store.trials) >= 1

\* C17: with a controller that does not idle and evaluations that return or
\* raise, a run that is started or resumed does not stay in fit(): unless the
\* process is stopped or killed, or fit() raises (on a grid_search space, or
\* possibly on a result without the primary metric), fit() returns; and it
\* returns only with the whole budget proposed and every trial completed or
\* errored, each restored or dispatched in this invocation.
RunCompleted ==
    pc = "done" =>
        /\ Len(trials) = tuner.num_samples
        /\ \A i \in 1..Len(trials) :
              /\ trials[i].status \in Terminal
              /\ started[i] = 1 \/ restored[i] = "completed"

ResumeUsesPersisted ==
    tuner.restored =>
        /\ tuner.param_space = store.param_space
        /\ tuner.num_samples = store.num_samples
        /\ tuner.metric = store.metric
        /\ \A i \in 1..Len(trials) : trials[i].config \in Suggestions(store.param_space)
        /\ Len(trials) <= store.num_samples
        /\ pc = "done" =>
              /\ Len(trials) = store.num_samples
              /\ Dispatches = store.num_samples - RestoredAs("completed")

PersistedSettingsKeptStep ==
    store.exists =>
        /\ store'.exists
        /\ store'.param_space = store.param_space
        /\ store'.num_samples = store.num_samples
        /\ store'.metric = store.metric

SetupOrderStep ==
    /\ pc' = "eval_init" => pc \in {"load", "eval_init"}
    /\ pc' = "gen_dets" => pc \in {"eval_init", "gen_dets"}
    /\ pc' = "decide" => pc \in {"gen_dets", "decide"}
    /\ pc' = "fit_start" => pc \in {"decide", "fit_start"}
    /\ pc' = "load" => pc \in Ended \cup {"load"}
    /\ pc = "eval_init" => pc' \in {"eval_init", "gen_dets", "failed", "killed"}
    /\ pc = "gen_dets" => pc' \in {"gen_dets", "decide", "failed", "killed"}
    /\ (pc \in {"eval_init", "gen_dets"} /\ pc' = "failed") =>
          tuner' = NoTuner /\ trials' = <<>> /\ started' = <<>> /\ store' = store

SetupBeforeTrials ==
    pc \in {"load", "eval_init", "gen_dets", "decide"} =>
        tuner = NoTuner /\ trials = <<>> /\ Dispatches = 0

SetupOnceBeforeTrials == []SetupBeforeTrials /\ [][SetupOrderStep]_vars

SetupRaisedWithPersistedRun ==
    /\ pc = "failed"
    /\ search_space # EmptySpace
    /\ tuner = NoTuner
    /\ store.exists
    /\ \E i \in 1..Len(store.trials) : store.trials[i].status = "pending"

====
